---- MODULE Spec2Model ----
(***************************************************************************)
(* MEXC balance diagnostic script (scripts/test-mexc-balance.py).          *)
(*                                                                         *)
(* Amounts are exact fixed-point numbers: an integer n stands for the      *)
(* amount n / Unit.  A raw value read from an exchange response is a       *)
(* Field: a number, a present null (None), or a missing key.               *)
(***************************************************************************)
EXTENDS Integers, Sequences, FiniteSets, TLC

\* ------------------------------------------------------------------ bounds
Unit == 2             \* amounts are multiples of 1/Unit
MaxAmt == 3           \* raw totals range over 0..MaxAmt
MaxAssets == 2        \* entries of a raw balance mapping
MaxPositions == 2     \* records of a fetch_positions response
NumSymbols == 2       \* symbols that closed orders may name
MaxFills == 2         \* fills of one fetch_my_trades response

\* ------------------------------------------------------------ raw values
Num(n) == [k |-> "num", v |-> n]
Null == [k |-> "null", v |-> 0]
Missing == [k |-> "missing", v |-> 0]

\* float(d.get(key, 0) or 0): a missing key, None and 0 all give 0.
Coerce(f) == IF f.k = "num" THEN f.v ELSE 0

Abs(x) == IF x < 0 THEN -x ELSE x

\* ------------------------------------------------------- balance mappings
\* A raw balance mapping is the sequence of its (key, value) items in the
\* mapping's iteration order; keys are distinct.  A currency's value is a
\* dict with the fields total/free/used; a reserved key's value may be
\* something else (isdict = FALSE).
ReservedKeys == {"info", "free", "used", "total", "debt", "timestamp", "datetime"}
SettlementCurrencies == {"USDT", "USDC", "USD"}

Item(key, isdict, total, free, used) ==
    [key |-> key, isdict |-> isdict, total |-> total, free |-> free, used |-> used]

HasKey(balance, key) == \E i \in 1..Len(balance) : balance[i].key = key

\* balance.get(key, {}): the item stored under key, or an empty dict.
GetItem(balance, key) ==
    IF HasKey(balance, key)
    THEN balance[CHOOSE i \in 1..Len(balance) : balance[i].key = key]
    ELSE Item(key, TRUE, Missing, Missing, Missing)

\* ------------------------------------------------------ test_spot_balance
spot_skips_key(key) == key \in ReservedKeys

spot_includes(item) == item.isdict /\ Coerce(item.total) > 0

spot_asset(item) ==
    [currency |-> item.key, total |-> Coerce(item.total),
     free |-> Coerce(item.free), used |-> Coerce(item.used)]

\* The loop over balance.items(): the assets kept, in iteration order.
RECURSIVE assets_with_balance(_)
assets_with_balance(balance) ==
    IF balance = <<>> THEN <<>>
    ELSE LET item == Head(balance)
             rest == assets_with_balance(Tail(balance))
         IN  IF spot_skips_key(item.key) THEN rest
             ELSE IF spot_includes(item) THEN <<spot_asset(item)>> \o rest
             ELSE rest

spot_counts(asset) == asset.currency \in SettlementCurrencies

RECURSIVE total_usdt_equiv(_)
total_usdt_equiv(assets) ==
    IF assets = <<>> THEN 0
    ELSE (IF spot_counts(Head(assets)) THEN Head(assets).total ELSE 0)
         + total_usdt_equiv(Tail(assets))

\* sorted(..., key=total, reverse=True) is stable: among equal totals the
\* earlier asset stays first.
RECURSIVE InsertByTotal(_, _)
InsertByTotal(x, s) ==
    IF s = <<>> THEN <<x>>
    ELSE IF Head(s).total >= x.total THEN <<Head(s)>> \o InsertByTotal(x, Tail(s))
    ELSE <<x>> \o s

RECURSIVE sorted_assets(_)
sorted_assets(assets) ==
    IF assets = <<>> THEN <<>>
    ELSE InsertByTotal(assets[Len(assets)],
                       sorted_assets(SubSeq(assets, 1, Len(assets) - 1)))

test_spot_balance(balance) ==
    [usdt_equiv |-> total_usdt_equiv(assets_with_balance(balance)),
     assets |-> assets_with_balance(balance),
     raw |-> balance]

spot_error_result == [usdt_equiv |-> 0, assets |-> <<>>, error |-> TRUE]

\* ------------------------------------------------------ test_swap_balance
swap_total(balance) ==
    Coerce(GetItem(balance, "USDT").total) + Coerce(GetItem(balance, "USDC").total)
    + Coerce(GetItem(balance, "USD").total)

swap_error_result == [total |-> 0, error |-> TRUE]

test_swap_balance(balance) ==
    [usdt_total |-> Coerce(GetItem(balance, "USDT").total),
     usdt_free |-> Coerce(GetItem(balance, "USDT").free),
     usdc_total |-> Coerce(GetItem(balance, "USDC").total),
     total |-> swap_total(balance),
     raw |-> balance]

\* --------------------------------------------------------- test_positions
\* A faulty is_open: the size test dropped (any numeric size is kept).
is_open_any_size(p) == p.contracts.k = "num"

\* p.get('contracts', 0) and float(p['contracts']) > 0
is_open(p) == p.contracts.k = "num" /\ p.contracts.v # 0 /\ p.contracts.v > 0

RECURSIVE open_positions(_)
open_positions(positions) ==
    IF positions = <<>> THEN <<>>
    ELSE IF is_open(Head(positions))
         THEN <<Head(positions)>> \o open_positions(Tail(positions))
         ELSE open_positions(Tail(positions))

RECURSIVE total_unrealized_pnl(_)
total_unrealized_pnl(open) ==
    IF open = <<>> THEN 0
    ELSE Coerce(Head(open).unrealizedPnl) + total_unrealized_pnl(Tail(open))

RECURSIVE total_notional(_)
total_notional(open) ==
    IF open = <<>> THEN 0
    ELSE Abs(Coerce(Head(open).notional)) + total_notional(Tail(open))

test_positions(positions) ==
    [positions |-> open_positions(positions),
     unrealized_pnl |-> total_unrealized_pnl(open_positions(positions)),
     notional |-> total_notional(open_positions(positions))]

positions_error_result == [positions |-> <<>>, unrealized_pnl |-> 0, error |-> TRUE]

\* --------------------------------------------------- test_funding_balance
FundingCandidates == <<"funding", "earn", "savings">>

funding_total(balance) == Coerce(GetItem(balance, "USDT").total)

\* A faulty funding_accepts: a candidate holding 0 is accepted too.
funding_accepts_zero(total) == total >= 0

funding_accepts(total) == total > 0

funding_none_result == [total |-> 0]

\* ----------------------------------------------------- test_recent_trades
\* A fill is [cost, fee]; fee is [present, cost]: a missing key reads as {}.
trade_cost(t) == Coerce(t.cost)

\* float(t.get('fee', {}).get('cost', 0) or 0)
trade_fee(t) == IF t.fee.present THEN Coerce(t.fee.cost) ELSE 0

RECURSIVE total_volume(_)
total_volume(trades) ==
    IF trades = <<>> THEN 0 ELSE trade_cost(Head(trades)) + total_volume(Tail(trades))

RECURSIVE total_fees(_)
total_fees(trades) ==
    IF trades = <<>> THEN 0 ELSE trade_fee(Head(trades)) + total_fees(Tail(trades))

\* ------------------------------------------------------------------- main
\* d.get(key, default)
GetOr(d, key, default) == IF key \in DOMAIN d THEN d[key] ELSE default

Epsilon == Unit      \* 1.0

pools_shared(spot_value, swap_value) ==
    Abs(spot_value - swap_value) < Epsilon /\ spot_value > 0

\* The figure printed after ">>>": ESTIMATED TOTAL or TOTAL EQUITY.
main_total(spot_value, swap_value, funding_value) ==
    IF pools_shared(spot_value, swap_value) THEN swap_value
    ELSE spot_value + swap_value + funding_value

\* format(value, spec): a str value accepts no sign in its format spec
\* (ValueError: Sign not allowed in string format specifier).
format_raises(kind, sign) == kind = "str" /\ sign

\* The four figures of the summary: each is format_currency(...), a str,
\* formatted again with ">15" or, for the unrealized PnL, ">+15".
SummaryLines ==
    << [name |-> "spot", kind |-> "str", sign |-> FALSE],
       [name |-> "swap", kind |-> "str", sign |-> FALSE],
       [name |-> "funding", kind |-> "str", sign |-> FALSE],
       [name |-> "unrealized_pnl", kind |-> "str", sign |-> TRUE] >>

summary_raises ==
    \E i \in 1..Len(SummaryLines) :
        format_raises(SummaryLines[i].kind, SummaryLines[i].sign)

\* ------------------------------------------------------------------ state
VARIABLES
    pc,                \* the statement main (or the function under study) is at
    defaultType,       \* exchange.options['defaultType']
    market_types, spot_result, swap_result, positions_result,
    funding_result, trades_result,
    candidate,         \* test_funding_balance: index of the balance_type tried next
    symbols_to_check,  \* test_recent_trades: symbols found in closed orders
    todo,              \* test_recent_trades: symbols the for loop has not visited
    all_trades,        \* test_recent_trades: fills gathered so far
    report,            \* what the summary printed after ">>>"
    calls,             \* history: the exchange calls made, in order
    failed,            \* history: the calls that raised
    funding_log,       \* history: what each funding candidate answered
    served,            \* history: symbol -> fills, per successful fetch_my_trades
    input, output      \* a function under study: its argument and its result

vars == << pc, defaultType, market_types, spot_result, swap_result,
           positions_result, funding_result, trades_result, candidate,
           symbols_to_check, todo, all_trades, report, calls, failed,
           funding_log, served, input, output >>

None == [none |-> TRUE]
NoReport == [printed |-> FALSE]

results == << market_types, spot_result, swap_result, positions_result,
              funding_result, trades_result >>
trade_vars == << symbols_to_check, todo, all_trades, served >>
study_vars == << input, output >>

Call(op, arg) == [op |-> op, arg |-> arg]

\* The state main is in once the client is created (credentials configured).
Init ==
    /\ pc = "market_types"
    /\ defaultType = "spot"
    /\ market_types = None /\ spot_result = None /\ swap_result = None
    /\ positions_result = None /\ funding_result = None /\ trades_result = None
    /\ candidate = 1
    /\ symbols_to_check = {} /\ todo = {} /\ all_trades = <<>>
    /\ report = NoReport
    /\ calls = <<>> /\ failed = {} /\ funding_log = <<>> /\ served = <<>>
    /\ input = None /\ output = None

\* ------------------------------------------------------ test_market_types
\* A market is the set of type flags it carries.
market_tag(flag) == IF flag = "option" THEN "options" ELSE flag

detected_types(markets) == { market_tag(f) : f \in UNION markets }

market_types_ok(MarketSets) ==
    /\ pc = "market_types"
    /\ \E markets \in MarketSets : market_types' = detected_types(markets)
    /\ calls' = Append(calls, Call("load_markets", "-"))
    /\ pc' = "spot"
    /\ UNCHANGED << defaultType, spot_result, swap_result, positions_result,
                    funding_result, trades_result, candidate, trade_vars, report,
                    failed, funding_log, study_vars >>

market_types_raises ==
    /\ pc = "market_types"
    /\ market_types' = {}
    /\ calls' = Append(calls, Call("load_markets", "-"))
    /\ failed' = failed \cup {"load_markets"}
    /\ pc' = "spot"
    /\ UNCHANGED << defaultType, spot_result, swap_result, positions_result,
                    funding_result, trades_result, candidate, trade_vars, report,
                    funding_log, study_vars >>

\* ------------------------------------------------------ balances, positions
spot_balance_ok(Balances) ==
    /\ pc = "spot"
    /\ defaultType' = "spot"
    /\ \E balance \in Balances : spot_result' = test_spot_balance(balance)
    /\ calls' = Append(calls, Call("fetch_balance", "spot"))
    /\ pc' = "swap"
    /\ UNCHANGED << market_types, swap_result, positions_result, funding_result,
                    trades_result, candidate, trade_vars, report, failed,
                    funding_log, study_vars >>

spot_balance_raises ==
    /\ pc = "spot"
    /\ defaultType' = "spot"
    /\ spot_result' = spot_error_result
    /\ calls' = Append(calls, Call("fetch_balance", "spot"))
    /\ failed' = failed \cup {"spot"}
    /\ pc' = "swap"
    /\ UNCHANGED << market_types, swap_result, positions_result, funding_result,
                    trades_result, candidate, trade_vars, report,
                    funding_log, study_vars >>

\* fetch_balance() without a type: the call reads the ambient defaultType.
swap_balance_ok(Balances) ==
    /\ pc = "swap"
    /\ defaultType' = "swap"
    /\ \E balance \in Balances : swap_result' = test_swap_balance(balance)
    /\ calls' = Append(calls, Call("fetch_balance", defaultType'))
    /\ pc' = "positions"
    /\ UNCHANGED << market_types, spot_result, positions_result, funding_result,
                    trades_result, candidate, trade_vars, report, failed,
                    funding_log, study_vars >>

swap_balance_raises ==
    /\ pc = "swap"
    /\ defaultType' = "swap"
    /\ swap_result' = swap_error_result
    /\ calls' = Append(calls, Call("fetch_balance", defaultType'))
    /\ failed' = failed \cup {"swap"}
    /\ pc' = "positions"
    /\ UNCHANGED << market_types, spot_result, positions_result, funding_result,
                    trades_result, candidate, trade_vars, report,
                    funding_log, study_vars >>

positions_ok(PositionLists) ==
    /\ pc = "positions"
    /\ defaultType' = "swap"
    /\ \E positions \in PositionLists : positions_result' = test_positions(positions)
    /\ calls' = Append(calls, Call("fetch_positions", "-"))
    /\ pc' = "funding"
    /\ UNCHANGED << market_types, spot_result, swap_result, funding_result,
                    trades_result, candidate, trade_vars, report, failed,
                    funding_log, study_vars >>

positions_raises ==
    /\ pc = "positions"
    /\ defaultType' = "swap"
    /\ positions_result' = positions_error_result
    /\ calls' = Append(calls, Call("fetch_positions", "-"))
    /\ failed' = failed \cup {"positions"}
    /\ pc' = "funding"
    /\ UNCHANGED << market_types, spot_result, swap_result, funding_result,
                    trades_result, candidate, trade_vars, report,
                    funding_log, study_vars >>

\* --------------------------------------------------- test_funding_balance
FundingEntry(raised, balance) ==
    [type |-> FundingCandidates[candidate], raised |-> raised, balance |-> balance]

\* One pass of the for loop whose fetch_balance answers.
funding_candidate_ok(Balances) ==
    /\ pc = "funding"
    /\ candidate <= Len(FundingCandidates)
    /\ \E balance \in Balances :
          /\ funding_log' = Append(funding_log, FundingEntry(FALSE, balance))
          /\ IF funding_accepts(funding_total(balance))
             THEN /\ funding_result' = [type |-> FundingCandidates[candidate],
                                        total |-> funding_total(balance)]
                  /\ pc' = "closed_orders"
                  /\ UNCHANGED candidate
             ELSE /\ candidate' = candidate + 1
                  /\ UNCHANGED << funding_result, pc >>
    /\ calls' = Append(calls, Call("fetch_balance", FundingCandidates[candidate]))
    /\ UNCHANGED << defaultType, market_types, spot_result, swap_result,
                    positions_result, trades_result, trade_vars, report, failed,
                    study_vars >>

\* One pass of the for loop whose fetch_balance raises: caught, next candidate.
funding_candidate_raises ==
    /\ pc = "funding"
    /\ candidate <= Len(FundingCandidates)
    /\ funding_log' = Append(funding_log, FundingEntry(TRUE, <<>>))
    /\ candidate' = candidate + 1
    /\ calls' = Append(calls, Call("fetch_balance", FundingCandidates[candidate]))
    /\ failed' = failed \cup {FundingCandidates[candidate]}
    /\ UNCHANGED << pc, defaultType, results, trade_vars, report, study_vars >>

\* The loop ran out of candidates.
funding_none ==
    /\ pc = "funding"
    /\ candidate > Len(FundingCandidates)
    /\ funding_result' = funding_none_result
    /\ pc' = "closed_orders"
    /\ UNCHANGED << defaultType, market_types, spot_result, swap_result,
                    positions_result, trades_result, candidate, trade_vars, report,
                    calls, failed, funding_log, study_vars >>

\* ----------------------------------------------------- test_recent_trades
\* An order's symbol is a symbol name, or "" for a missing, null or empty one.
order_symbols(orders) ==
    { orders[i].symbol : i \in { j \in 1..Len(orders) : orders[j].symbol # "" } }

closed_orders_ok(OrderLists) ==
    /\ pc = "closed_orders"
    /\ defaultType' = "swap"
    /\ \E orders \in OrderLists :
          /\ symbols_to_check' = order_symbols(orders)
          /\ todo' = order_symbols(orders)
    /\ calls' = Append(calls, Call("fetch_closed_orders", "-"))
    /\ pc' = "my_trades"
    /\ UNCHANGED << results, candidate, all_trades, served, report, failed,
                    funding_log, study_vars >>

closed_orders_raises ==
    /\ pc = "closed_orders"
    /\ defaultType' = "swap"
    /\ symbols_to_check' = {} /\ todo' = {}
    /\ calls' = Append(calls, Call("fetch_closed_orders", "-"))
    /\ failed' = failed \cup {"closed_orders"}
    /\ pc' = "my_trades"
    /\ UNCHANGED << results, candidate, all_trades, served, report,
                    funding_log, study_vars >>

\* One pass of "for symbol in symbols_to_check" (a set: any order) whose
\* fetch_my_trades answers.
my_trades_ok(FillLists) ==
    /\ pc = "my_trades"
    /\ \E symbol \in todo, trades \in FillLists :
          /\ all_trades' = all_trades \o trades
          /\ todo' = todo \ {symbol}
          /\ served' = [s \in DOMAIN served \cup {symbol} |->
                            IF s = symbol THEN trades ELSE served[s]]
          /\ calls' = Append(calls, Call("fetch_my_trades", symbol))
    /\ UNCHANGED << pc, defaultType, results, candidate, symbols_to_check, report,
                    failed, funding_log, study_vars >>

\* A faulty handler: the exception ends the loop instead of one pass.
my_trades_raise_ends_loop(symbol) == {}

\* except Exception: pass
my_trades_after_raise(symbol) == todo \ {symbol}

my_trades_raises ==
    /\ pc = "my_trades"
    /\ \E symbol \in todo :
          /\ todo' = my_trades_after_raise(symbol)
          /\ calls' = Append(calls, Call("fetch_my_trades", symbol))
          /\ failed' = failed \cup {symbol}
    /\ UNCHANGED << pc, defaultType, results, candidate, symbols_to_check,
                    all_trades, served, report, funding_log, study_vars >>

trades_done ==
    /\ pc = "my_trades"
    /\ todo = {}
    /\ trades_result' = [trades |-> Len(all_trades),
                         volume |-> total_volume(all_trades),
                         fees |-> total_fees(all_trades)]
    /\ pc' = "summary"
    /\ UNCHANGED << defaultType, market_types, spot_result, swap_result,
                    positions_result, funding_result, candidate, trade_vars, report,
                    calls, failed, funding_log, study_vars >>

\* ---------------------------------------------------------- main: summary
spot_value == GetOr(spot_result, "usdt_equiv", 0)
swap_value == GetOr(swap_result, "total", 0)
funding_value == GetOr(funding_result, "total", 0)
unrealized_pnl == GetOr(positions_result, "unrealized_pnl", 0)

\* Lines 335-338 format the four figures; a format that raises ends main
\* with the exception, before the verdict and the total of lines 342-350.
summary ==
    /\ pc = "summary"
    /\ IF summary_raises
       THEN /\ report' = [printed |-> FALSE, raised |-> "ValueError"]
            /\ pc' = "aborted"
       ELSE /\ report' = [printed |-> TRUE,
                          shared |-> pools_shared(spot_value, swap_value),
                          total |-> main_total(spot_value, swap_value, funding_value)]
            /\ pc' = "done"
    /\ UNCHANGED << defaultType, results, candidate, trade_vars, calls, failed,
                    funding_log, study_vars >>

\* ------------------------------------------------------- main: the inputs
Usdt(total) == Item("USDT", TRUE, Num(total), Num(total), Num(0))

MainBalances == { <<Usdt(t)>> : t \in 0..MaxAmt }
MainFundingBalances == { <<Usdt(t)>> : t \in 0..1 }
MainMarkets == { {{"spot"}, {"swap", "option"}} }
Position(contracts, pnl, notional) ==
    [contracts |-> contracts, unrealizedPnl |-> pnl, notional |-> notional]
MainPositionLists ==
    { <<>>, <<Position(Num(1), Num(-1), Num(-2))>>, <<Position(Num(1), Num(1), Num(2))>> }

SymbolNames == <<"BTC/USDT:USDT", "ETH/USDT:USDT", "SOL/USDT:USDT", "XRP/USDT:USDT">>
Symbols == { SymbolNames[i] : i \in 1..NumSymbols }
Fee(cost) == [present |-> TRUE, cost |-> cost]
NoFee == [present |-> FALSE, cost |-> Missing]
Fill(cost, fee) == [cost |-> cost, fee |-> fee]
Order(symbol) == [symbol |-> symbol]
MainOrderLists == { <<>> } \cup { <<Order(s)>> : s \in Symbols \cup {""} }
                  \cup { <<Order(s), Order(t)>> : s, t \in Symbols }
MainFillLists == { <<>>, <<Fill(Num(2), Fee(Num(1)))>> }

Next ==
    \/ market_types_ok(MainMarkets)
    \/ market_types_raises
    \/ spot_balance_ok(MainBalances)
    \/ spot_balance_raises
    \/ swap_balance_ok(MainBalances)
    \/ swap_balance_raises
    \/ positions_ok(MainPositionLists)
    \/ positions_raises
    \/ funding_candidate_ok(MainFundingBalances)
    \/ funding_candidate_raises
    \/ funding_none
    \/ closed_orders_ok(MainOrderLists)
    \/ closed_orders_raises
    \/ my_trades_ok(MainFillLists)
    \/ my_trades_raises
    \/ trades_done
    \/ summary

Spec == Init /\ [][Next]_vars

\* ------------------------------------- test_funding_balance on its own
\* main at the call of test_funding_balance, every earlier call having raised.
InitFunding ==
    /\ pc = "funding"
    /\ defaultType = "swap"
    /\ market_types = {} /\ spot_result = spot_error_result
    /\ swap_result = swap_error_result /\ positions_result = positions_error_result
    /\ funding_result = None /\ trades_result = None
    /\ candidate = 1
    /\ symbols_to_check = {} /\ todo = {} /\ all_trades = <<>>
    /\ report = NoReport
    /\ calls = << Call("load_markets", "-"), Call("fetch_balance", "spot"),
                  Call("fetch_balance", "swap"), Call("fetch_positions", "-") >>
    /\ failed = {"load_markets", "spot", "swap", "positions"}
    /\ funding_log = <<>> /\ served = <<>>
    /\ input = None /\ output = None

\* What a funding/earn/savings account may answer: USDT with any total, or
\* absent, beside an optional USDC holding.
FundingTotals == {Missing, Null} \cup { Num(t) : t \in 0..MaxAmt }
FundingBalances ==
    LET usdt == { <<>> } \cup { <<Item("USDT", TRUE, t, Missing, Missing)>> : t \in FundingTotals }
        usdc == { <<>>, <<Item("USDC", TRUE, Num(MaxAmt), Missing, Missing)>> }
    IN  { a \o b : a \in usdt, b \in usdc }

NextFunding ==
    \/ funding_candidate_ok(FundingBalances)
    \/ funding_candidate_raises
    \/ funding_none

SpecFunding == InitFunding /\ [][NextFunding]_vars

\* --------------------------------------- test_recent_trades on its own
\* main at the call of test_recent_trades, every earlier call having raised.
InitTrades ==
    /\ pc = "closed_orders"
    /\ defaultType = "swap"
    /\ market_types = {} /\ spot_result = spot_error_result
    /\ swap_result = swap_error_result /\ positions_result = positions_error_result
    /\ funding_result = funding_none_result /\ trades_result = None
    /\ candidate = Len(FundingCandidates) + 1
    /\ symbols_to_check = {} /\ todo = {} /\ all_trades = <<>>
    /\ report = NoReport
    /\ calls = << Call("load_markets", "-"), Call("fetch_balance", "spot"),
                  Call("fetch_balance", "swap"), Call("fetch_positions", "-"),
                  Call("fetch_balance", "funding"), Call("fetch_balance", "earn"),
                  Call("fetch_balance", "savings") >>
    /\ failed = {"load_markets", "spot", "swap", "positions",
                 "funding", "earn", "savings"}
    /\ funding_log = [i \in 1..Len(FundingCandidates) |->
                         [type |-> FundingCandidates[i], raised |-> TRUE, balance |-> <<>>]]
    /\ served = <<>>
    /\ input = None /\ output = None

RECURSIVE SeqsUpTo(_, _)
SeqsUpTo(S, n) ==
    IF n = 0 THEN { <<>> }
    ELSE SeqsUpTo(S, n - 1)
         \cup { Append(q, x) : q \in { r \in SeqsUpTo(S, n - 1) : Len(r) = n - 1 }, x \in S }

OrderLists == SeqsUpTo({ Order(s) : s \in Symbols \cup {""} }, NumSymbols + 1)

FillKinds == { Fill(Num(MaxAmt), Fee(Num(1))), Fill(Null, NoFee), Fill(Num(1), Fee(Null)) }
FillLists == SeqsUpTo(FillKinds, MaxFills)

NextTrades ==
    \/ closed_orders_ok(OrderLists)
    \/ closed_orders_raises
    \/ my_trades_ok(FillLists)
    \/ my_trades_raises
    \/ trades_done

SpecTrades == InitTrades /\ [][NextTrades]_vars

\* ------------------------------------ the balance functions on their own
\* The state of a function under study: main's own variables are at rest.
AtRest ==
    /\ defaultType = "spot"
    /\ market_types = None /\ spot_result = None /\ swap_result = None
    /\ positions_result = None /\ funding_result = None /\ trades_result = None
    /\ candidate = 1
    /\ symbols_to_check = {} /\ todo = {} /\ all_trades = <<>>
    /\ report = NoReport
    /\ calls = <<>> /\ failed = {} /\ funding_log = <<>> /\ served = <<>>

main_vars == << defaultType, results, candidate, trade_vars, report, calls,
                failed, funding_log >>

DistinctKeys(balance) ==
    \A i, j \in 1..Len(balance) : balance[i].key = balance[j].key => i = j

CurrencyKeys == {"BTC", "USD", "USDC", "USDT"}
RawTotals == {Missing, Null} \cup { Num(t) : t \in 0..MaxAmt }
RawItems ==
    { Item(c, TRUE, t, f, u) :
        c \in CurrencyKeys, t \in RawTotals, f \in {Missing, Num(1)}, u \in {Null, Num(1)} }
    \cup { Item("info", TRUE, Num(MaxAmt), Missing, Missing),
           Item("timestamp", FALSE, Missing, Missing, Missing) }
RawBalances == { b \in SeqsUpTo(RawItems, MaxAssets) : DistinctKeys(b) }

BalanceFunctions == {"test_spot_balance", "test_swap_balance", "test_funding_balance"}

InitNormalizer ==
    /\ pc = "study"
    /\ input \in [fn : BalanceFunctions, arg : RawBalances]
    /\ output = None
    /\ AtRest

apply_spot ==
    /\ pc = "study"
    /\ input.fn = "test_spot_balance"
    /\ output' = [subtotal |-> test_spot_balance(input.arg).usdt_equiv,
                  result |-> test_spot_balance(input.arg),
                  display |-> sorted_assets(test_spot_balance(input.arg).assets)]
    /\ pc' = "studied"
    /\ UNCHANGED << main_vars, input >>

apply_swap ==
    /\ pc = "study"
    /\ input.fn = "test_swap_balance"
    /\ output' = [subtotal |-> test_swap_balance(input.arg).total,
                  result |-> test_swap_balance(input.arg)]
    /\ pc' = "studied"
    /\ UNCHANGED << main_vars, input >>

\* test_funding_balance when the first candidate answers input.arg and the
\* later ones answer nothing.
funding_result_of(balance) ==
    IF funding_accepts(funding_total(balance))
    THEN [type |-> FundingCandidates[1], total |-> funding_total(balance)]
    ELSE funding_none_result

apply_funding ==
    /\ pc = "study"
    /\ input.fn = "test_funding_balance"
    /\ output' = [subtotal |-> funding_result_of(input.arg).total,
                  result |-> funding_result_of(input.arg)]
    /\ pc' = "studied"
    /\ UNCHANGED << main_vars, input >>

NextNormalizer == apply_spot \/ apply_swap \/ apply_funding

SpecNormalizer == InitNormalizer /\ [][NextNormalizer]_vars

\* --------------------------------------------- test_positions on its own
RawPositions ==
    { Position(c, p, n) :
        c \in {Missing, Null, Num(0), Num(1), Num(-1)},
        p \in {Missing, Null, Num(-1), Num(MaxAmt)},
        n \in {Missing, Num(-2), Num(1)} }
RawPositionLists == SeqsUpTo(RawPositions, MaxPositions)

InitPositions ==
    /\ pc = "study"
    /\ input \in [fn : {"test_positions"}, arg : RawPositionLists]
    /\ output = None
    /\ AtRest

apply_positions ==
    /\ pc = "study"
    /\ input.fn = "test_positions"
    /\ output' = test_positions(input.arg)
    /\ pc' = "studied"
    /\ UNCHANGED << main_vars, input >>

NextPositions == apply_positions

SpecPositions == InitPositions /\ [][NextPositions]_vars

\* ================================================================ claims
RECURSIVE SumOver(_, _)
\* The sum of f[x] over x in the finite set S.
SumOver(S, f) ==
    IF S = {} THEN 0
    ELSE LET x == CHOOSE y \in S : TRUE IN f[x] + SumOver(S \ {x}, f)

\* ---- unified-margin detector and total (main)
SpecifiedShared(spot, swap) == spot > 0 /\ swap > 0 /\ Abs(spot - swap) < Epsilon

\* C1: for every pair of spot and swap subtotals main can hold, the condition
\* main tests declares the pools shared exactly when both subtotals are
\* strictly positive and they differ by less than 1.0.
C1_SharedExactlyWhenBothPositive ==
    pc = "summary" =>
        (pools_shared(spot_value, swap_value) <=> SpecifiedShared(spot_value, swap_value))

\* C2: whenever the pools are declared shared, the total main reports is the
\* swap subtotal plus the funding subtotal.
C2_SharedTotalAddsFunding ==
    (pc = "summary" /\ pools_shared(spot_value, swap_value)) =>
        main_total(spot_value, swap_value, funding_value) = swap_value + funding_value

\* The part of C3 that concerns the arithmetic of the total alone.
C3_AdditiveExpression ==
    (pc = "summary" /\ ~pools_shared(spot_value, swap_value)) =>
        main_total(spot_value, swap_value, funding_value)
            = spot_value + swap_value + funding_value

\* C3: whenever the pools are not declared shared, a run of main ends having
\* reported the total spot + swap + funding (the unrealized PnL is no term).
C3_AdditiveTotalReported ==
    (pc \in {"done", "aborted"} /\ ~pools_shared(spot_value, swap_value)) =>
        /\ report.printed
        /\ report.total = spot_value + swap_value + funding_value

\* C5: whatever fetches raise, main never aborts: it makes every call in
\* order, each account type whose fetch raised contributes 0, and the run
\* ends with the summary printed.
ContributesZero ==
    /\ ("spot" \in failed /\ spot_result # None) => spot_value = 0
    /\ ("swap" \in failed /\ swap_result # None) => swap_value = 0
    /\ ("positions" \in failed /\ positions_result # None) => unrealized_pnl = 0
    /\ (funding_result # None /\ \A i \in 1..Len(funding_log) : funding_log[i].raised)
          => funding_value = 0

Stage(call) ==
    CASE call.op = "load_markets" -> 1
      [] call.op = "fetch_balance" /\ call.arg = "spot" -> 2
      [] call.op = "fetch_balance" /\ call.arg = "swap" -> 3
      [] call.op = "fetch_positions" -> 4
      [] call.op = "fetch_balance" -> 5
      [] call.op = "fetch_closed_orders" -> 6
      [] OTHER -> 7

StagesDone == { Stage(calls[i]) : i \in 1..Len(calls) }

\* The calls so far are made in main's order, none skipped.
CallsInOrder ==
    /\ \A i, j \in 1..Len(calls) : i < j => Stage(calls[i]) <= Stage(calls[j])
    /\ \A n \in StagesDone : \A m \in 1..6 : m < n => m \in StagesDone
    /\ pc \in {"summary", "done", "aborted"} => (1..6) \subseteq StagesDone

\* The part of C5 that concerns the fetches alone.
C5_FailuresIsolated == ContributesZero /\ CallsInOrder

C5_RunNeverAborts ==
    /\ pc # "aborted"
    /\ C5_FailuresIsolated
    /\ pc = "done" => report.printed

\* ---- test_recent_trades
Raised == failed \cap Symbols
Fetched == DOMAIN served

FillCount == [s \in Fetched |-> Len(served[s])]
FillVolume ==
    [s \in Fetched |->
        SumOver(1..Len(served[s]),
                [i \in 1..Len(served[s]) |->
                    IF served[s][i].cost.k = "num" THEN served[s][i].cost.v ELSE 0])]
FillFees ==
    [s \in Fetched |->
        SumOver(1..Len(served[s]),
                [i \in 1..Len(served[s]) |->
                    IF served[s][i].fee.present /\ served[s][i].fee.cost.k = "num"
                    THEN served[s][i].fee.cost.v ELSE 0])]

\* C4: whichever fetch_my_trades calls raise and in whatever order the symbols
\* are visited, test_recent_trades visits every symbol, and the count, volume
\* and fees it reports are those of exactly the fills of the symbols whose
\* fetch answered.
C4_BestEffortAggregation ==
    /\ pc = "my_trades" =>
          /\ todo \cup Fetched \cup Raised = symbols_to_check
          /\ todo \cap (Fetched \cup Raised) = {}
    /\ pc = "summary" =>
          /\ Fetched \cup Raised = symbols_to_check
          /\ Fetched \cap Raised = {}
          /\ trades_result.trades = SumOver(Fetched, FillCount)
          /\ trades_result.volume = SumOver(Fetched, FillVolume)
          /\ trades_result.fees = SumOver(Fetched, FillFees)

C4_Witness ==
    /\ pc = "summary"
    /\ Raised # {}
    /\ \E s \in Fetched : Len(served[s]) = MaxFills
    /\ trades_result.volume > 0 /\ trades_result.fees > 0

\* ---- test_funding_balance
UsdtTotal(balance) ==
    IF \E i \in 1..Len(balance) : balance[i].key = "USDT" /\ balance[i].total.k = "num"
    THEN (balance[CHOOSE i \in 1..Len(balance) : balance[i].key = "USDT"]).total.v
    ELSE 0

Qualifies(entry) == ~entry.raised /\ UsdtTotal(entry.balance) > 0

\* C10: the candidates are queried in the order funding, earn, savings; none
\* is queried after one that answered a USDT total > 0, whose type and total
\* are the result; a candidate that raises or holds 0 is followed by the
\* next one, and when none qualifies the total is 0.
C10_FirstQualifyingCandidate ==
    /\ Len(funding_log) <= Len(FundingCandidates)
    /\ \A i \in 1..Len(funding_log) : funding_log[i].type = FundingCandidates[i]
    /\ \A i \in 1..(Len(funding_log) - 1) : ~Qualifies(funding_log[i])
    /\ pc = "funding" =>
          \A i \in 1..Len(funding_log) : ~Qualifies(funding_log[i])
    /\ pc = "closed_orders" =>
          IF Len(funding_log) > 0 /\ Qualifies(funding_log[Len(funding_log)])
          THEN funding_result =
                  [type |-> funding_log[Len(funding_log)].type,
                   total |-> UsdtTotal(funding_log[Len(funding_log)].balance)]
          ELSE /\ Len(funding_log) = Len(FundingCandidates)
               /\ funding_result.total = 0

C10_Witness ==
    /\ pc = "closed_orders"
    /\ Len(funding_log) = 3
    /\ funding_log[1].raised
    /\ ~funding_log[2].raised /\ funding_log[2].balance # <<>>
    /\ Qualifies(funding_log[3])
    /\ funding_result.type = "savings"

\* ---- test_positions
Size(p) == IF p.contracts.k = "num" THEN p.contracts.v ELSE 0
Retained(raw) == { i \in 1..Len(raw) : Size(raw[i]) > 0 }

\* The subsequence of raw at the indices in I.
RECURSIVE Pick(_, _)
Pick(raw, I) ==
    IF raw = <<>> THEN <<>>
    ELSE Pick(SubSeq(raw, 1, Len(raw) - 1), I)
         \o (IF Len(raw) \in I THEN <<raw[Len(raw)]>> ELSE <<>>)

\* C8: test_positions retains exactly the records with size > 0, in order,
\* and reports the signed sum of their unrealizedPnl and the sum of their
\* absolute notional, a missing or null number counting as 0.
C8_PositionAggregates ==
    pc = "studied" =>
        LET raw == input.arg
            pnl == [i \in 1..Len(raw) |->
                      IF raw[i].unrealizedPnl.k = "num" THEN raw[i].unrealizedPnl.v ELSE 0]
            absn == [i \in 1..Len(raw) |->
                      IF raw[i].notional.k = "num"
                      THEN (IF raw[i].notional.v < 0 THEN -raw[i].notional.v
                            ELSE raw[i].notional.v)
                      ELSE 0]
        IN  /\ output.positions = Pick(raw, Retained(raw))
            /\ output.unrealized_pnl = SumOver(Retained(raw), pnl)
            /\ output.notional = SumOver(Retained(raw), absn)

C8_Witness ==
    /\ pc = "studied"
    /\ Len(input.arg) = 2
    /\ input.arg[1].contracts = Num(0) /\ input.arg[1].unrealizedPnl = Num(MaxAmt)
    /\ input.arg[2].contracts = Num(1) /\ input.arg[2].unrealizedPnl = Num(-1)
    /\ input.arg[2].notional = Num(-2)
    /\ output.unrealized_pnl = -1 /\ output.notional = 2

\* ---- the balance normalizers
SettlementSum(balance) ==
    SumOver({ i \in 1..Len(balance) : balance[i].key \in SettlementCurrencies },
            [i \in 1..Len(balance) |->
                IF balance[i].total.k = "num" THEN balance[i].total.v ELSE 0])

\* C6: for spot, swap and funding alike, the subtotal computed from a raw
\* balance is the sum of total over the assets in USDT, USDC, USD.
C6_SettlementSubtotal ==
    pc = "studied" => output.subtotal = SettlementSum(input.arg)

CurrencyOrder == <<"BTC", "USD", "USDC", "USDT", "info", "timestamp">>
Rank(c) == CHOOSE i \in 1..Len(CurrencyOrder) : CurrencyOrder[i] = c
Before(a, b) ==
    \/ a.total > b.total
    \/ a.total = b.total /\ Rank(a.currency) < Rank(b.currency)

PositiveAssets(balance) ==
    { [currency |-> balance[i].key,
       total |-> IF balance[i].total.k = "num" THEN balance[i].total.v ELSE 0,
       free |-> IF balance[i].free.k = "num" THEN balance[i].free.v ELSE 0,
       used |-> IF balance[i].used.k = "num" THEN balance[i].used.v ELSE 0] :
        i \in { j \in 1..Len(balance) :
                  /\ balance[j].key \in CurrencyKeys
                  /\ balance[j].total.k = "num" /\ balance[j].total.v > 0 } }

\* The part of C7 that concerns which assets are listed.
C7_ExactlyPositiveAssets ==
    (pc = "studied" /\ input.fn = "test_spot_balance") =>
        /\ { output.display[i] : i \in 1..Len(output.display) } = PositiveAssets(input.arg)
        /\ Len(output.display) = Cardinality(PositiveAssets(input.arg))
        /\ Len(output.result.assets) = Len(output.display)

\* C7: the spot balances list exactly the assets with total > 0, by
\* descending total, ties by ascending currency identifier.
C7_BalancesOrder ==
    /\ C7_ExactlyPositiveAssets
    /\ (pc = "studied" /\ input.fn = "test_spot_balance") =>
          \A i, j \in 1..Len(output.display) :
              i < j => Before(output.display[i], output.display[j])

Flagged(result, asset) ==
    \/ "flagged" \in DOMAIN asset
    \/ "violations" \in DOMAIN result

\* C9: every listed asset whose total differs from free + used is flagged in
\* the normalizer's output.
C9_MismatchFlagged ==
    (pc = "studied" /\ input.fn = "test_spot_balance") =>
        \A i \in 1..Len(output.result.assets) :
            LET a == output.result.assets[i]
            IN  a.total # a.free + a.used => Flagged(output.result, a)

====
